---- MODULE Spec2Model ----
(***************************************************************************)
(* Model of json_yaml_files/prepare_files.py: BIDStoNDAConfigGenerator.    *)
(*                                                                         *)
(* A Python str is a sequence of one-character strings, so that find,      *)
(* slicing, replace, re.sub, lower and split are computed character by     *)
(* character as Python computes them.  The BIDS layout (an external        *)
(* library) is the environment: a dataset root and the files it indexes,   *)
(* listed in the natural sort order of their paths.                        *)
(***************************************************************************)
EXTENDS Integers, Sequences, FiniteSets, TLC

VARIABLES
  root,          \* absolute path of the dataset directory (args.source), ends with "/"
  layout,        \* files indexed by BIDSLayout, in the order layout.get lists them
  pc,            \* position of the process: ready, loop, names, done, failed
  error,         \* the unhandled exception that ended the process, "" if none
  X,             \* run: list of scope names present
  Y_types,       \* run: list of datatypes present
  xi, yi,        \* run: positions of the two for loops
  files,         \* run: files of the current (scope, datatype) group
  Z,             \* run: list(Z) returned by fetch_Z_value, in its iteration order
  file_names,    \* run: the two name lists of the current group
  ji, ki,        \* run: positions of the json loop and of the yaml loop
  json_dir,      \* prepared_jsons: file name -> content
  yaml_dir,      \* prepared_yamls: file name -> content
  runs,          \* number of processes started against this destination
  first_json,    \* history: prepared_jsons as the first process left it
  first_yaml     \* history: prepared_yamls as the first process left it

vars == <<root, layout, pc, error, X, Y_types, xi, yi, files, Z, file_names,
          ji, ki, json_dir, yaml_dir, runs, first_json, first_yaml>>

\* bounds of the model
MaxFiles == 2
MaxRuns == 2

-----------------------------------------------------------------------------
(* Python values *)

\* None: a value no str is equal to
None == <<"<None>">>

Truthy(v) == v # None /\ v # <<>>

Range(s) == {s[i] : i \in 1..Len(s)}

Digits == {"0","1","2","3","4","5","6","7","8","9"}

UpperCase == <<"A","B","C","D","E","F","G","H","I","J","K","L","M","N","O","P","Q","R","S","T","U","V","W","X","Y","Z">>
LowerCase == <<"a","b","c","d","e","f","g","h","i","j","k","l","m","n","o","p","q","r","s","t","u","v","w","x","y","z">>

\* str.lower of one character
LowerChar(c) ==
  IF \E i \in 1..Len(UpperCase) : UpperCase[i] = c
    THEN LowerCase[CHOOSE i \in 1..Len(UpperCase) : UpperCase[i] = c]
    ELSE c

\* str.lower
lower(s) == [i \in 1..Len(s) |-> LowerChar(s[i])]

\* s[i:i+len(t)] == t, i counted from 1
MatchAt(s, t, i) ==
  /\ i >= 1
  /\ i + Len(t) - 1 <= Len(s)
  /\ \A j \in 1..Len(t) : s[i + j - 1] = t[j]

\* t in s
Contains(s, t) == \E i \in 1..(Len(s) + 1) : MatchAt(s, t, i)

\* str.find: index of the first occurrence counted from 0, -1 if there is none
find(s, t) ==
  IF Contains(s, t)
    THEN (CHOOSE i \in 1..(Len(s) + 1) :
            MatchAt(s, t, i) /\ \A j \in 1..(i - 1) : ~MatchAt(s, t, j)) - 1
    ELSE -1

\* s[k:], a negative k counted from the end
SliceFrom(s, k) ==
  LET n == Len(s)
      start == IF k < 0 THEN (IF n + k < 0 THEN 0 ELSE n + k)
                        ELSE (IF k > n THEN n ELSE k)
  IN SubSeq(s, start + 1, n)

RECURSIVE Flatten(_, _, _)
\* ss[lo] \o ... \o ss[hi], by halves
Flatten(ss, lo, hi) ==
  IF lo > hi THEN <<>>
  ELSE IF lo = hi THEN ss[lo]
  ELSE LET mid == (lo + hi) \div 2
       IN Flatten(ss, lo, mid) \o Flatten(ss, mid + 1, hi)

RECURSIVE Occurrences(_, _, _)
\* where the non-overlapping occurrences of old start in s, found left to right from i
Occurrences(s, old, i) ==
  LET M == {m \in i..Len(s) : MatchAt(s, old, m)}
  IN IF M = {} THEN {}
     ELSE LET first == CHOOSE m \in M : \A k \in M : m <= k
          IN {first} \cup Occurrences(s, old, first + Len(old))

\* str.replace(old, new) for a non-empty old: every non-overlapping occurrence, left to right
replace(s, old, new) ==
  LET starts == Occurrences(s, old, 1)
      piece == [i \in 1..Len(s) |->
                  IF i \in starts THEN new
                  ELSE IF \E m \in starts : m < i /\ i < m + Len(old) THEN <<>>
                  ELSE <<s[i]>>]
  IN Flatten(piece, 1, Len(s))

\* re.sub(r'-\d', '-{#}', s): a match is a hyphen and the one digit after it
re_sub_hyphen_digit(s) ==
  LET Hit(i) == i >= 1 /\ i + 1 <= Len(s) /\ s[i] = "-" /\ s[i + 1] \in Digits
      piece == [i \in 1..Len(s) |->
                  IF Hit(i) THEN <<"-","{","#","}">>
                  ELSE IF Hit(i - 1) THEN <<>>
                  ELSE <<s[i]>>]
  IN Flatten(piece, 1, Len(s))

\* Z.split('_')[0]
split_first(s, c) ==
  IF \E i \in 1..Len(s) : s[i] = c
    THEN SubSeq(s, 1, (CHOOSE i \in 1..Len(s) :
                         s[i] = c /\ \A j \in 1..(i - 1) : s[j] # c) - 1)
    ELSE s

\* dict.get(key) on a dict kept as a sequence of <<key, value>> items
DictGet(d, k) ==
  IF \E i \in 1..Len(d) : d[i][1] = k
    THEN d[CHOOSE i \in 1..Len(d) : d[i][1] = k][2]
    ELSE None

DictHas(d, k) == \E i \in 1..Len(d) : d[i][1] = k

\* d[k] = v: an existing key keeps its place, a new key goes last
DictSet(d, k, v) ==
  IF DictHas(d, k)
    THEN [i \in 1..Len(d) |-> IF d[i][1] = k THEN <<k, v>> ELSE d[i]]
    ELSE Append(d, <<k, v>>)

-----------------------------------------------------------------------------
(* Constants set by __init__ *)

A == <<"i","m","a","g","e","0","3">>

scan_type ==
  << <<<<"a","n","a","t">>,
       << <<<<"m","p","r","a","g","e">>, "MR structural (MPRAGE)">>,
          <<<<"t","1","w">>, "MR structural (T1)">>,
          <<<<"p","d">>, "MR structural (PD)">>,
          <<<<"f","s","p","g","r">>, "MR structural (FSPGR)">>,
          <<<<"f","s","i","p">>, "MR structural (FISP)">>,
          <<<<"t","2","w">>, "MR structural (T2)">>,
          <<<<"p","d","_","t","2">>, "MR structural (PD, T2)">>,
          <<<<"b","0","_","m","a","p">>, "MR structural (B0 map)">>,
          <<<<"b","1","_","m","a","p">>, "MR structural (B1 map)">>,
          <<<<"f","l","a","s","h">>, "MR structural (FLASH)">>,
          <<<<"m","p","2","r","a","g","e">>, "MR structural (MP2RAGE)">>,
          <<<<"t","s","e">>, "MR structural (TSE)">>,
          <<<<"t","1","w","_","t","2","w">>, "MR structural (T1, T2)">>,
          <<<<"m","p","n","r","a","g","e">>, "MR structural (MPnRAGE)">> >> >>,
     <<<<"p","e","t">>,
       << <<<<"p","e","t">>, "PET">> >> >> >>

image_modality ==
  << <<<<"p","e","t">>, "PET">>,
     <<<<"a","n","a","t">>, "MRI">>,
     <<<<"f","u","n","c">>, "MRI">>,
     <<<<"d","w","i">>, "MRI">>,
     <<<<"f","m","a","p">>, "MRI">> >>

\* scopes of run: layout scope -> name used in the file names
scopes ==
  << <<<<"r","a","w">>, <<"i","n","p","u","t","s">>>>,
     <<<<"d","e","r","i","v","a","t","i","v","e","s">>, <<"d","e","r","i","v","a","t","i","v","e","s">>>>,
     <<<<"s","o","u","r","c","e","d","a","t","a">>, <<"s","o","u","r","c","e","d","a","t","a">>>> >>

sub_path_prefix ==
  << <<<<"d","e","r","i","v","a","t","i","v","e","s">>, <<"d","e","r","i","v","a","t","i","v","e","s">>>>,
     <<<<"i","n","p","u","t","s">>, <<"s","u","b","-">>>> >>

ignore_list == {<<"d","e","s","c">>, <<"s","u","b","j","e","c","t">>, <<"s","e","s","s","i","o","n">>, <<"e","x","t","e","n","s","i","o","n">>, <<"s","u","f","f","i","x">>, <<"d","a","t","a","t","y","p","e">>}

-----------------------------------------------------------------------------
(* The BIDS layout: the external collaborator *)

\* Files a dataset may hold.  rel is the path below the dataset directory,
\* entities the dict parse_file_entities gives for the file, in the order of
\* the layout's entity configuration.  The files stand in the order in which
\* layout.get lists them (natural sort of the paths).
Catalogue ==
  <<
    [scope |-> <<"d","e","r","i","v","a","t","i","v","e","s">>,
     rel |-> <<"d","e","r","i","v","a","t","i","v","e","s","/","p","r","e","p","/","s","u","b","-","0","1","/","a","n","a","t","/","R","E","A","D","M","E">>,
     entities |-> << <<<<"s","u","b","j","e","c","t">>, <<"0","1">>>>, <<<<"d","a","t","a","t","y","p","e">>, <<"a","n","a","t">>>> >>],
    [scope |-> <<"d","e","r","i","v","a","t","i","v","e","s">>,
     rel |-> <<"d","e","r","i","v","a","t","i","v","e","s","/","p","r","e","p","/","s","u","b","-","0","1","/","a","n","a","t","/","s","u","b","-","0","1","_","s","p","a","c","e","-","T","1","w","_","d","e","s","c","-","b","r","a","i","n","_","m","a","s","k",".","n","i","i">>,
     entities |-> << <<<<"s","u","b","j","e","c","t">>, <<"0","1">>>>, <<<<"s","p","a","c","e">>, <<"T","1","w">>>>, <<<<"s","u","f","f","i","x">>, <<"m","a","s","k">>>>, <<<<"d","a","t","a","t","y","p","e">>, <<"a","n","a","t">>>>, <<<<"e","x","t","e","n","s","i","o","n">>, <<".","n","i","i">>>>, <<<<"d","e","s","c">>, <<"b","r","a","i","n">>>> >>],
    [scope |-> <<"d","e","r","i","v","a","t","i","v","e","s">>,
     rel |-> <<"d","e","r","i","v","a","t","i","v","e","s","/","p","r","e","p","/","s","u","b","-","0","1","/","a","n","a","t","/","s","u","b","-","0","1","_","s","p","a","c","e","-","T","1","w","_","T","2","w",".","n","i","i">>,
     entities |-> << <<<<"s","u","b","j","e","c","t">>, <<"0","1">>>>, <<<<"s","p","a","c","e">>, <<"T","1","w">>>>, <<<<"s","u","f","f","i","x">>, <<"T","2","w">>>>, <<<<"d","a","t","a","t","y","p","e">>, <<"a","n","a","t">>>>, <<<<"e","x","t","e","n","s","i","o","n">>, <<".","n","i","i">>>> >>],
    [scope |-> <<"d","e","r","i","v","a","t","i","v","e","s">>,
     rel |-> <<"d","e","r","i","v","a","t","i","v","e","s","/","p","r","e","p","/","s","u","b","-","0","1","/","p","e","t","/","s","u","b","-","0","1","_","s","p","a","c","e","-","M","N","I","_","p","e","t",".","n","i","i">>,
     entities |-> << <<<<"s","u","b","j","e","c","t">>, <<"0","1">>>>, <<<<"s","p","a","c","e">>, <<"M","N","I">>>>, <<<<"s","u","f","f","i","x">>, <<"p","e","t">>>>, <<<<"d","a","t","a","t","y","p","e">>, <<"p","e","t">>>>, <<<<"e","x","t","e","n","s","i","o","n">>, <<".","n","i","i">>>> >>],
    [scope |-> <<"s","o","u","r","c","e","d","a","t","a">>,
     rel |-> <<"s","o","u","r","c","e","d","a","t","a","/","s","u","b","-","0","1","/","a","n","a","t","/","s","u","b","-","0","1","_","T","1","w",".","n","i","i">>,
     entities |-> << <<<<"s","u","b","j","e","c","t">>, <<"0","1">>>>, <<<<"s","u","f","f","i","x">>, <<"T","1","w">>>>, <<<<"d","a","t","a","t","y","p","e">>, <<"a","n","a","t">>>>, <<<<"e","x","t","e","n","s","i","o","n">>, <<".","n","i","i">>>> >>],
    [scope |-> <<"r","a","w">>,
     rel |-> <<"s","u","b","-","0","1","/","a","n","a","t","/","s","u","b","-","0","1","_","T","1","w",".","n","i","i">>,
     entities |-> << <<<<"s","u","b","j","e","c","t">>, <<"0","1">>>>, <<<<"s","u","f","f","i","x">>, <<"T","1","w">>>>, <<<<"d","a","t","a","t","y","p","e">>, <<"a","n","a","t">>>>, <<<<"e","x","t","e","n","s","i","o","n">>, <<".","n","i","i">>>> >>],
    [scope |-> <<"r","a","w">>,
     rel |-> <<"s","u","b","-","0","1","/","e","e","g","/","s","u","b","-","0","1","_","e","e","g",".","e","d","f">>,
     entities |-> << <<<<"s","u","b","j","e","c","t">>, <<"0","1">>>>, <<<<"s","u","f","f","i","x">>, <<"e","e","g">>>>, <<<<"d","a","t","a","t","y","p","e">>, <<"e","e","g">>>>, <<<<"e","x","t","e","n","s","i","o","n">>, <<".","e","d","f">>>> >>],
    [scope |-> <<"r","a","w">>,
     rel |-> <<"s","u","b","-","0","1","/","e","e","g","/","s","u","b","-","0","1","_","t","a","s","k","-","r","e","s","t","_","e","e","g",".","e","d","f">>,
     entities |-> << <<<<"s","u","b","j","e","c","t">>, <<"0","1">>>>, <<<<"t","a","s","k">>, <<"r","e","s","t">>>>, <<<<"s","u","f","f","i","x">>, <<"e","e","g">>>>, <<<<"d","a","t","a","t","y","p","e">>, <<"e","e","g">>>>, <<<<"e","x","t","e","n","s","i","o","n">>, <<".","e","d","f">>>> >>],
    [scope |-> <<"r","a","w">>,
     rel |-> <<"s","u","b","-","0","1","/","s","e","s","-","0","1","/","a","n","a","t","/","s","u","b","-","0","1","_","s","e","s","-","0","1","_","r","u","n","-","1","2","_","T","2","w",".","n","i","i">>,
     entities |-> << <<<<"s","u","b","j","e","c","t">>, <<"0","1">>>>, <<<<"s","e","s","s","i","o","n">>, <<"0","1">>>>, <<<<"r","u","n">>, <<"1","2">>>>, <<<<"s","u","f","f","i","x">>, <<"T","2","w">>>>, <<<<"d","a","t","a","t","y","p","e">>, <<"a","n","a","t">>>>, <<<<"e","x","t","e","n","s","i","o","n">>, <<".","n","i","i">>>> >>],
    [scope |-> <<"r","a","w">>,
     rel |-> <<"s","u","b","-","0","2","/","a","n","a","t","/","s","u","b","-","0","2","_","T","1","w",".","n","i","i">>,
     entities |-> << <<<<"s","u","b","j","e","c","t">>, <<"0","2">>>>, <<<<"s","u","f","f","i","x">>, <<"T","1","w">>>>, <<<<"d","a","t","a","t","y","p","e">>, <<"a","n","a","t">>>>, <<<<"e","x","t","e","n","s","i","o","n">>, <<".","n","i","i">>>> >>],
    [scope |-> <<"r","a","w">>,
     rel |-> <<"s","u","b","-","0","2","/","s","e","s","-","S","/","f","u","n","c","/","s","u","b","-","0","2","_","s","e","s","-","S","_","t","a","s","k","-","r","e","s","t","_","b","o","l","d",".","n","i","i">>,
     entities |-> << <<<<"s","u","b","j","e","c","t">>, <<"0","2">>>>, <<<<"s","e","s","s","i","o","n">>, <<"S">>>>, <<<<"t","a","s","k">>, <<"r","e","s","t">>>>, <<<<"s","u","f","f","i","x">>, <<"b","o","l","d">>>>, <<<<"d","a","t","a","t","y","p","e">>, <<"f","u","n","c">>>>, <<<<"e","x","t","e","n","s","i","o","n">>, <<".","n","i","i">>>> >>]
  >>

\* Dataset directories: one whose path holds neither prefix text, one whose
\* path holds 'sub-' and 'derivatives' above the dataset
Roots == {<<"/","d","/">>, <<"/","s","u","b","-","d","e","r","i","v","a","t","i","v","e","s","/","d","/">>}

\* the file's path as layout.get(return_type='file') returns it
PathOf(f) == root \o f.rel

\* characters an entity value is made of ([a-zA-Z0-9+] in the layout's patterns)
ValueChar(c) == c \notin {"/", "_", "-", ".", "{", "}", "#"}

\* the run of value characters of s that starts at i
TakeValue(s, i) ==
  LET stops == {j \in i..Len(s) : ~ValueChar(s[j])}
      end == IF stops = {} THEN Len(s) ELSE (CHOOSE j \in stops : \A k \in stops : j <= k) - 1
  IN SubSeq(s, i, end)

\* re.search of [leads]+tag([a-zA-Z0-9+]+): the group of the first match, None if none
SearchEntity(s, leads, tag) ==
  LET Hit(i) == /\ s[i] \in leads
                /\ MatchAt(s, tag, i + 1)
                /\ i + Len(tag) + 1 <= Len(s)
                /\ ValueChar(s[i + Len(tag) + 1])
  IN IF \E i \in 1..Len(s) : Hit(i)
       THEN TakeValue(s, (CHOOSE i \in 1..Len(s) :
                            Hit(i) /\ \A j \in 1..(i - 1) : ~Hit(j)) + Len(tag) + 1)
       ELSE None

\* layout.parse_file_entities(sub_path), the entities prepare_json_contents reads:
\* subject is matched by [/\\]+sub-([a-zA-Z0-9+]+), session by [_/\\]+ses-([a-zA-Z0-9+]+)
parse_file_entities(path) ==
  LET subject == SearchEntity(path, {"/"}, <<"s","u","b","-">>)
      session == SearchEntity(path, {"/", "_"}, <<"s","e","s","-">>)
  IN (IF subject # None THEN << <<<<"s","u","b","j","e","c","t">>, subject>> >> ELSE <<>>)
     \o (IF session # None THEN << <<<<"s","e","s","s","i","o","n">>, session>> >> ELSE <<>>)

\* layout.get(scope=scope, datatype=datatype, return_type='file')
layout_get(scope, datatype) ==
  SelectSeq(layout, LAMBDA f : f.scope = scope /\ DictGet(f.entities, <<"d","a","t","a","t","y","p","e">>) = datatype)

\* layout.get(scope=scope): the files of the scope
layout_get_scope(scope) == SelectSeq(layout, LAMBDA f : f.scope = scope)

\* order in which get_datatypes lists the datatypes
DatatypeOrder == <<<<"a","n","a","t">>, <<"e","e","g">>, <<"f","u","n","c">>, <<"p","e","t">>>>

\* layout.get_datatypes()
get_datatypes ==
  SelectSeq(DatatypeOrder,
            LAMBDA y : \E i \in 1..Len(layout) : DictGet(layout[i].entities, <<"d","a","t","a","t","y","p","e">>) = y)

-----------------------------------------------------------------------------
(* The generator's methods *)

\* first index >= from at which s holds c, 0 if there is none
IndexFrom(s, c, from) ==
  IF \E i \in from..Len(s) : s[i] = c
    THEN CHOOSE i \in from..Len(s) : s[i] = c /\ \A j \in from..(i - 1) : s[j] # c
    ELSE 0

\* re.match(r'^(?P<A>[^_]+)_(?P<X>[^.]+)\.(?P<Y>[^.]+)\.(?P<Z>[^.]+)\..+$', file_name)
extract_file_name_components(file_name) ==
  LET u  == IndexFrom(file_name, "_", 1)
      d1 == IF u > 0 THEN IndexFrom(file_name, ".", u + 1) ELSE 0
      d2 == IF d1 > 0 THEN IndexFrom(file_name, ".", d1 + 1) ELSE 0
      d3 == IF d2 > 0 THEN IndexFrom(file_name, ".", d2 + 1) ELSE 0
      match == /\ u > 1
               /\ d1 > u + 1
               /\ d2 > d1 + 1
               /\ d3 > d2 + 1
               /\ d3 < Len(file_name)
  IN IF match
       THEN <<SubSeq(file_name, 1, u - 1),
              SubSeq(file_name, u + 1, d1 - 1),
              SubSeq(file_name, d1 + 1, d2 - 1),
              SubSeq(file_name, d2 + 1, d3 - 1)>>
       ELSE <<None, None, None, None>>

replace_placeholders(path, subject, session) ==
  LET p1 == IF Truthy(subject) THEN replace(path, subject, <<"{","S","U","B","J","E","C","T","}">>) ELSE path
      p2 == IF Truthy(session) THEN replace(p1, session, <<"{","S","E","S","S","I","O","N","}">>) ELSE p1
  IN re_sub_hyphen_digit(p2)

\* line 81: the path restricted for scope name Xc
restrict_path(Xc, file_path) ==
  IF DictHas(sub_path_prefix, Xc)
    THEN SliceFrom(file_path, find(file_path, DictGet(sub_path_prefix, Xc)))
    ELSE file_path

\* lines 81-84: the key prepare_json_contents derives from one file path
json_key(Xc, file_path) ==
  LET sub_path == restrict_path(Xc, file_path)
      entities == parse_file_entities(sub_path)
  IN replace_placeholders(sub_path, DictGet(entities, <<"s","u","b","j","e","c","t">>), DictGet(entities, <<"s","e","s","s","i","o","n">>))

RECURSIVE json_loop_raw_key(_, _, _, _)
json_loop_raw_key(Xc, fs, i, json_contents) ==
  IF i > Len(fs) THEN json_contents
  ELSE LET sub_path == json_key(Xc, PathOf(fs[i]))
       IN json_loop_raw_key(Xc, fs, i + 1, DictSet(json_contents, PathOf(fs[i]), sub_path))

\* prepare_json_contents with the bug json_contents[file_path] = sub_path
prepare_json_contents_raw_key(file_name, fs) ==
  json_loop_raw_key(extract_file_name_components(file_name)[2], fs, 1, <<>>)

RECURSIVE json_loop(_, _, _, _)
json_loop(Xc, fs, i, json_contents) ==
  IF i > Len(fs) THEN json_contents
  ELSE LET sub_path == json_key(Xc, PathOf(fs[i]))
       IN json_loop(Xc, fs, i + 1, DictSet(json_contents, sub_path, sub_path))

\* the dict prepare_json_contents writes for file_name
prepare_json_contents(file_name, fs) ==
  json_loop(extract_file_name_components(file_name)[2], fs, 1, <<>>)

\* fetch_scan_type with the bug of looking Z up as it is spelled, without lower()
fetch_scan_type_case_sensitive(Yc, Zc) ==
  LET table == IF DictHas(scan_type, Yc) THEN DictGet(scan_type, Yc) ELSE <<>>
      prefix == split_first(Zc, "_")
  IN IF DictHas(table, Zc) THEN DictGet(table, Zc)
     ELSE IF "_" \in Range(Zc) /\ DictHas(table, prefix)
            THEN DictGet(table, prefix)
     ELSE IF DictHas(table, Yc) THEN DictGet(table, Yc)
     ELSE ""

fetch_scan_type(Yc, Zc) ==
  LET table == IF DictHas(scan_type, Yc) THEN DictGet(scan_type, Yc) ELSE <<>>
      prefix == split_first(Zc, "_")
  IN IF DictHas(table, lower(Zc)) THEN DictGet(table, lower(Zc))
     ELSE IF "_" \in Range(Zc) /\ DictHas(table, lower(prefix))
            THEN DictGet(table, lower(prefix))
     ELSE IF DictHas(table, Yc) THEN DictGet(table, Yc)
     ELSE ""

\* prepare_yaml_contents with self.image_modality.get(Y, '') in place of self.image_modality[Y]
prepare_yaml_contents_default_modality(file_name) ==
  LET c == extract_file_name_components(file_name)
  IN IF c[4] = None
       THEN [error |-> "AttributeError: lower", contents |-> None]
     ELSE [error |-> "",
           contents |-> [scan_type |-> fetch_scan_type(c[3], c[4]),
                         scan_object |-> "Live",
                         image_file_format |-> "NIFTI",
                         image_modality |-> IF DictHas(image_modality, c[3])
                                              THEN DictGet(image_modality, c[3]) ELSE "",
                         transformation_performed |-> "No"]]

\* the record prepare_yaml_contents writes for file_name, or the exception it raises
prepare_yaml_contents(file_name) ==
  LET c == extract_file_name_components(file_name)
  IN IF c[4] = None
       THEN [error |-> "AttributeError: lower", contents |-> None]
     ELSE IF ~DictHas(image_modality, c[3])
       THEN [error |-> "KeyError: image_modality", contents |-> None]
     ELSE [error |-> "",
           contents |-> [scan_type |-> fetch_scan_type(c[3], c[4]),
                         scan_object |-> "Live",
                         image_file_format |-> "NIFTI",
                         image_modality |-> DictGet(image_modality, c[3]),
                         transformation_performed |-> "No"]]

\* lines 124-126: the z one filtered entity gives
z_of(kv, entities) ==
  LET z == IF kv[1] # <<"s","p","a","c","e">> THEN kv[1] \o <<"-">> \o kv[2] ELSE kv[2]
      suffix == DictGet(entities, <<"s","u","f","f","i","x">>)
  IN IF Truthy(suffix) /\ suffix # DictGet(entities, <<"d","a","t","a","t","y","p","e">>)
       THEN (IF z # <<>> THEN z \o <<"_">> \o suffix ELSE suffix)
       ELSE z

RECURSIVE fetch_Z_loop(_, _, _)
fetch_Z_loop(fs, i, Zs) ==
  IF i > Len(fs) THEN [error |-> "", Z |-> Zs]
  ELSE LET entities == fs[i].entities
           filtered_entities == SelectSeq(entities, LAMBDA kv : kv[1] \notin ignore_list)
           Z1 == Zs \cup ({z_of(filtered_entities[k], entities) :
                             k \in 1..Len(filtered_entities)} \ {<<>>})
       IN IF Z1 # {} THEN fetch_Z_loop(fs, i + 1, Z1)
          ELSE IF ~DictHas(entities, <<"s","u","f","f","i","x">>)
                 THEN [error |-> "KeyError: suffix", Z |-> {}]
          ELSE IF DictGet(entities, <<"s","u","f","f","i","x">>) # DictGet(entities, <<"d","a","t","a","t","y","p","e">>)
                 THEN fetch_Z_loop(fs, i + 1, {DictGet(entities, <<"s","u","f","f","i","x">>)})
          ELSE fetch_Z_loop(fs, i + 1, Z1)

\* the set Z fetch_Z_value has built when it returns, or the exception it raises
fetch_Z_value(fs) == fetch_Z_loop(fs, 1, {})

\* prepare_file_names with the bug of leaving the first z out of the yaml names
prepare_file_names_skip_first(Xc, Yc, Zl) ==
  LET file_base == A \o <<"_">> \o Xc \o <<".">> \o Yc \o <<".">>
  IN [json |-> [i \in 1..Len(Zl) |-> file_base \o Zl[i] \o <<".","j","s","o","n">>],
      yaml |-> [i \in 1..(Len(Zl) - 1) |-> file_base \o Zl[i + 1] \o <<".","y","a","m","l">>]]

\* prepare_file_names with the bug of building every yaml name from the first z
prepare_file_names_first_z(Xc, Yc, Zl) ==
  LET file_base == A \o <<"_">> \o Xc \o <<".">> \o Yc \o <<".">>
  IN [json |-> [i \in 1..Len(Zl) |-> file_base \o Zl[i] \o <<".","j","s","o","n">>],
      yaml |-> [i \in 1..Len(Zl) |-> file_base \o Zl[1] \o <<".","y","a","m","l">>]]

prepare_file_names(Xc, Yc, Zl) ==
  LET file_base == A \o <<"_">> \o Xc \o <<".">> \o Yc \o <<".">>
  IN [json |-> [i \in 1..Len(Zl) |-> file_base \o Zl[i] \o <<".","j","s","o","n">>],
      yaml |-> [i \in 1..Len(Zl) |-> file_base \o Zl[i] \o <<".","y","a","m","l">>]]

\* open(output_file, 'w') and dump: the file is created or overwritten
write_to_file(dir, output_file, contents) ==
  [n \in (DOMAIN dir) \cup {output_file} |-> IF n = output_file THEN contents ELSE dir[n]]

\* the orders in which list(Z) may hold the elements of the set Z
ListsOf(S) == {s \in [1..Cardinality(S) -> S] : Range(s) = S}

-----------------------------------------------------------------------------
(* The process: __init__, then run *)

RECURSIVE InOrder(_)
\* the elements of a set of catalogue positions, ascending
InOrder(S) ==
  IF S = {} THEN <<>>
  ELSE LET m == CHOOSE i \in S : \A j \in S : i <= j
       IN <<m>> \o InOrder(S \ {m})

\* the datasets of the model: at most MaxFiles files of the catalogue, in listing order
Datasets ==
  {[i \in 1..Cardinality(S) |-> Catalogue[InOrder(S)[i]]] :
     S \in {T \in SUBSET (1..Len(Catalogue)) : Cardinality(T) <= MaxFiles}}

\* the empty directory
EmptyDir == <<>>

Init ==
  /\ root \in Roots
  /\ layout \in Datasets
  /\ pc = "ready"
  /\ error = ""
  /\ X = <<>>
  /\ Y_types = <<>>
  /\ xi = 1
  /\ yi = 1
  /\ files = <<>>
  /\ Z = <<>>
  /\ file_names = [json |-> <<>>, yaml |-> <<>>]
  /\ ji = 1
  /\ ki = 1
  /\ json_dir = EmptyDir
  /\ yaml_dir = EmptyDir
  /\ runs = 1
  /\ first_json = EmptyDir
  /\ first_yaml = EmptyDir

\* lines 158-164: the scopes and the datatypes present
RunStart ==
  /\ pc = "ready"
  /\ X' = LET present == SelectSeq(scopes, LAMBDA sn : Len(layout_get_scope(sn[1])) > 0)
          IN [i \in 1..Len(present) |-> present[i][2]]
  /\ Y_types' = get_datatypes
  /\ xi' = 1
  /\ yi' = 1
  /\ pc' = "loop"
  /\ UNCHANGED <<root, layout, error, files, Z, file_names, ji, ki,
                 json_dir, yaml_dir, runs, first_json, first_yaml>>

\* lines 168-172: the files of the group, its Z values and its file names
Group ==
  /\ pc = "loop"
  /\ xi <= Len(X)
  /\ yi <= Len(Y_types)
  /\ LET x == X[xi]
         y == Y_types[yi]
         fs == layout_get(IF x # <<"i","n","p","u","t","s">> THEN x ELSE <<"r","a","w">>, y)
         r == fetch_Z_value(fs)
     IN /\ files' = fs
        /\ IF r.error # ""
             THEN /\ pc' = "failed"
                  /\ error' = r.error
                  /\ Z' = <<>>
                  /\ file_names' = [json |-> <<>>, yaml |-> <<>>]
             ELSE /\ pc' = "names"
                  /\ error' = error
                  /\ Z' \in ListsOf(r.Z)
                  /\ file_names' = prepare_file_names(x, y, Z')
  /\ ji' = 1
  /\ ki' = 1
  /\ UNCHANGED <<root, layout, X, Y_types, xi, yi, json_dir, yaml_dir,
                 runs, first_json, first_yaml>>

\* JsonStep with the bug of writing below self.yaml_dir
JsonStep_into_yaml_dir ==
  /\ pc = "names"
  /\ ji <= Len(file_names.json)
  /\ yaml_dir' = write_to_file(yaml_dir, file_names.json[ji],
                               prepare_json_contents(file_names.json[ji], files))
  /\ ji' = ji + 1
  /\ UNCHANGED <<root, layout, pc, error, X, Y_types, xi, yi, files, Z, file_names,
                 ki, json_dir, runs, first_json, first_yaml>>

\* lines 174-175: one turn of the json loop
JsonStep ==
  /\ pc = "names"
  /\ ji <= Len(file_names.json)
  /\ json_dir' = write_to_file(json_dir, file_names.json[ji],
                               prepare_json_contents(file_names.json[ji], files))
  /\ ji' = ji + 1
  /\ UNCHANGED <<root, layout, pc, error, X, Y_types, xi, yi, files, Z, file_names,
                 ki, yaml_dir, runs, first_json, first_yaml>>

\* lines 176-177: one turn of the yaml loop
YamlStep ==
  /\ pc = "names"
  /\ ji > Len(file_names.json)
  /\ ki <= Len(file_names.yaml)
  /\ LET r == prepare_yaml_contents(file_names.yaml[ki])
     IN IF r.error # ""
          THEN /\ pc' = "failed"
               /\ error' = r.error
               /\ UNCHANGED <<yaml_dir, ki>>
          ELSE /\ yaml_dir' = write_to_file(yaml_dir, file_names.yaml[ki], r.contents)
               /\ ki' = ki + 1
               /\ UNCHANGED <<pc, error>>
  /\ UNCHANGED <<root, layout, X, Y_types, xi, yi, files, Z, file_names,
                 ji, json_dir, runs, first_json, first_yaml>>

\* the end of one turn of the loops of lines 166-167
GroupEnd ==
  /\ pc = "names"
  /\ ji > Len(file_names.json)
  /\ ki > Len(file_names.yaml)
  /\ IF yi < Len(Y_types)
       THEN /\ yi' = yi + 1
            /\ xi' = xi
       ELSE /\ yi' = 1
            /\ xi' = xi + 1
  /\ pc' = "loop"
  /\ UNCHANGED <<root, layout, error, X, Y_types, files, Z, file_names, ji, ki,
                 json_dir, yaml_dir, runs, first_json, first_yaml>>

\* lines 179-180: the loops are over, run returns and the process exits with code 0
Finish ==
  /\ pc = "loop"
  /\ (xi > Len(X) \/ Len(Y_types) = 0)
  /\ pc' = "done"
  /\ UNCHANGED <<root, layout, error, X, Y_types, xi, yi, files, Z, file_names, ji, ki,
                 json_dir, yaml_dir, runs, first_json, first_yaml>>

\* lines 183-184 again: a new process against the same source and destination;
\* mkdir(exist_ok=True) keeps the directories as they are
Restart ==
  /\ pc \in {"done", "failed"}
  /\ runs < MaxRuns
  /\ runs' = runs + 1
  /\ first_json' = IF runs = 1 THEN json_dir ELSE first_json
  /\ first_yaml' = IF runs = 1 THEN yaml_dir ELSE first_yaml
  /\ pc' = "ready"
  /\ error' = ""
  /\ X' = <<>>
  /\ Y_types' = <<>>
  /\ xi' = 1
  /\ yi' = 1
  /\ files' = <<>>
  /\ Z' = <<>>
  /\ file_names' = [json |-> <<>>, yaml |-> <<>>]
  /\ ji' = 1
  /\ ki' = 1
  /\ UNCHANGED <<root, layout, json_dir, yaml_dir>>

Next ==
  \/ RunStart
  \/ Group
  \/ JsonStep
  \/ YamlStep
  \/ GroupEnd
  \/ Finish
  \/ Restart

Spec == Init /\ [][Next]_vars

-----------------------------------------------------------------------------
(* What the claims speak of *)

\* a file name without its extension (.json and .yaml are five characters)
StripExt(n) == SubSeq(n, 1, Len(n) - 5)

JsonStems == {StripExt(n) : n \in DOMAIN json_dir}
YamlStems == {StripExt(n) : n \in DOMAIN yaml_dir}

\* the files of the group of scope name x and datatype y
GroupFiles(x, y) == layout_get(IF x # <<"i","n","p","u","t","s">> THEN x ELSE <<"r","a","w">>, y)

\* the scope names of the scopes that hold files
PresentScopeNames ==
  {scopes[i][2] : i \in {j \in 1..Len(scopes) : Len(layout_get_scope(scopes[j][1])) > 0}}

\* the (scope, datatype, suffix) combinations fetch_Z_value derives from the dataset
Combinations ==
  UNION {{<<x, y, z>> : z \in fetch_Z_value(GroupFiles(x, y)).Z} :
           <<x, y>> \in PresentScopeNames \X Range(get_datatypes)}

\* the stem image03_<X>.<Y>.<Z>
StemOf(c) == <<"i","m","a","g","e","0","3","_">> \o c[1] \o <<".">> \o c[2] \o <<".">> \o c[3]

Keys(content) == {content[i][1] : i \in 1..Len(content)}

Unrecognized(y) == \A i \in 1..Len(image_modality) : image_modality[i][1] # y

\* C1: when run has completed, prepared_jsons and prepared_yamls hold the same
\* stems, one stem image03_<X>.<Y>.<Z> for each combination fetch_Z_value derives,
\* and as many files each as there are combinations.
C1_PairsMatchCombinations ==
  pc = "done" =>
    /\ JsonStems = YamlStems
    /\ JsonStems = {StemOf(c) : c \in Combinations}
    /\ Cardinality(DOMAIN json_dir) = Cardinality(Combinations)
    /\ Cardinality(DOMAIN yaml_dir) = Cardinality(Combinations)

C1_Witness ==
  /\ pc = "done"
  /\ runs = 1
  /\ Cardinality(Combinations) >= 2
  /\ Cardinality(DOMAIN yaml_dir) >= 2

\* C2 (as claimed): every key written for a file whose restricted path parses to
\* subject s and session t holds sub-{SUBJECT} and ses-{SESSION} in place of the
\* ids, no placeholder is damaged, and no digit is left after a hyphen or after
\* the -{#} that replaced a hyphen-digit sequence.
C2_PlaceholdersAsClaimed ==
  \A n \in DOMAIN json_dir :
    LET c == extract_file_name_components(n)
        fs == GroupFiles(c[2], c[3])
    IN \A i \in 1..Len(fs) :
         LET sub_path == restrict_path(c[2], PathOf(fs[i]))
             entities == parse_file_entities(sub_path)
             k == json_key(c[2], PathOf(fs[i]))
             Braces == {j \in 1..Len(k) : k[j] = "{"}
         IN /\ k \in Keys(json_dir[n])
            /\ DictHas(entities, <<"s","u","b","j","e","c","t">>) => Contains(k, <<"s","u","b","-","{","S","U","B","J","E","C","T","}">>)
            /\ DictHas(entities, <<"s","e","s","s","i","o","n">>) => Contains(k, <<"s","e","s","-","{","S","E","S","S","I","O","N","}">>)
            /\ \A j \in Braces : \/ MatchAt(k, <<"{","S","U","B","J","E","C","T","}">>, j)
                                 \/ MatchAt(k, <<"{","S","E","S","S","I","O","N","}">>, j)
                                 \/ MatchAt(k, <<"{","#","}">>, j)
            /\ \A j \in 1..(Len(k) - 1) : k[j] = "-" => k[j + 1] \notin Digits
            /\ \A j \in 1..Len(k) :
                 MatchAt(k, <<"-","{","#","}">>, j) => (j + 4 > Len(k) \/ k[j + 4] \notin Digits)

\* C3: when a later process has ended, prepared_jsons and prepared_yamls are what
\* the first process left: the same files with the same content, in whatever
\* order either process iterated the Z values.
C3_SecondRunChangesNothing ==
  (runs >= 2 /\ pc \in {"done", "failed"}) =>
    /\ json_dir = first_json
    /\ yaml_dir = first_yaml

C3_Witness ==
  /\ runs = 2
  /\ pc = "done"
  /\ Len(Z) >= 2
  /\ Cardinality(DOMAIN yaml_dir) >= 2
  /\ yaml_dir = first_yaml

\* C4 (as claimed): a dataset with files of a datatype that the modality table
\* does not hold never completes, and the exception that ends it is the key
\* error of the modality lookup.
C4_UnrecognizedNeverCompletes ==
  (\E i \in 1..Len(layout) : Unrecognized(DictGet(layout[i].entities, <<"d","a","t","a","t","y","p","e">>))) =>
    /\ pc # "done"
    /\ pc = "failed" => error = "KeyError: image_modality"

\* C4 (amended): run completes only if every group of an unrecognized datatype
\* gives no Z value; a group of an unrecognized datatype with a Z value ends run
\* with the key error of the modality lookup, after the group's JSON files and
\* before any of its YAML files.
C4_UnrecognizedWithZRaises ==
  /\ pc = "done" =>
       \A x \in PresentScopeNames, y \in Range(get_datatypes) :
         Unrecognized(y) => fetch_Z_value(GroupFiles(x, y)).Z = {}
  /\ (pc = "names" /\ Unrecognized(Y_types[yi]) /\ Len(Z) > 0) => ki = 1
  /\ error = "KeyError: image_modality" =>
       /\ pc = "failed"
       /\ Unrecognized(Y_types[yi])
       /\ Len(Z) > 0
       /\ ki = 1
       /\ \A j \in 1..Len(file_names.json) : file_names.json[j] \in DOMAIN json_dir
       /\ \A j \in 1..Len(file_names.yaml) : file_names.yaml[j] \notin DOMAIN yaml_dir

C4_Witness ==
  /\ pc = "failed"
  /\ error = "KeyError: image_modality"
  /\ Unrecognized(Y_types[yi])
  /\ Cardinality(DOMAIN json_dir) >= 1

\* the table of a datatype, empty if it has none
TableOf(y) ==
  IF \E i \in 1..Len(scan_type) : scan_type[i][1] = y
    THEN scan_type[CHOOSE i \in 1..Len(scan_type) : scan_type[i][1] = y][2]
    ELSE <<>>

\* the three tiers of the claim
ClaimedScanType(y, z) ==
  LET t == TableOf(y)
      head == split_first(z, "_")
  IN IF DictHas(t, lower(z)) THEN DictGet(t, lower(z))
     ELSE IF Contains(z, <<"_">>) /\ DictHas(t, lower(head)) THEN DictGet(t, lower(head))
     ELSE ""

\* the claim's tiers and, before the empty string, the label stored under the
\* datatype's own name
AmendedScanType(y, z) ==
  IF ClaimedScanType(y, z) # "" THEN ClaimedScanType(y, z)
  ELSE IF DictHas(TableOf(y), y) THEN DictGet(TableOf(y), y)
  ELSE ""

\* C5 (as claimed): the scan_type of every YAML file is the label under lowercased
\* Z, else the label under the lowercased part of Z before its first underscore,
\* else the empty string.
C5_ThreeTiers ==
  \A n \in DOMAIN yaml_dir :
    LET c == extract_file_name_components(n)
    IN yaml_dir[n].scan_type = ClaimedScanType(c[3], c[4])

\* C5 (amended): as claimed, but when neither lookup finds a label the scan_type
\* is the label stored under the datatype's own name in its table ('PET' for
\* pet), and the empty string only if there is none.
C5_FourTiers ==
  \A n \in DOMAIN yaml_dir :
    LET c == extract_file_name_components(n)
    IN yaml_dir[n].scan_type = AmendedScanType(c[3], c[4])

C5_Witness ==
  /\ \E n \in DOMAIN yaml_dir :
       LET c == extract_file_name_components(n)
       IN /\ c[3] = <<"p","e","t">>
          /\ ClaimedScanType(c[3], c[4]) = ""
          /\ yaml_dir[n].scan_type = "PET"
  /\ \E n \in DOMAIN yaml_dir : yaml_dir[n].scan_type = "MR structural (T1)"

\* a file with no entity left after the ignore list and a suffix that differs
\* from its datatype
SuffixOnly(f) ==
  /\ \A i \in 1..Len(f.entities) : f.entities[i][1] \in ignore_list
  /\ DictHas(f.entities, <<"s","u","f","f","i","x">>)
  /\ DictGet(f.entities, <<"s","u","f","f","i","x">>) # DictGet(f.entities, <<"d","a","t","a","t","y","p","e">>)

\* C6 (as claimed): the Z values fetch_Z_value returned for the group hold the
\* suffix of every file of the group that has no entity left after the ignore
\* list and whose suffix differs from its datatype.
C6_SuffixFallbackForEveryFile ==
  pc = "names" =>
    \A i \in 1..Len(files) :
      SuffixOnly(files[i]) => DictGet(files[i].entities, <<"s","u","f","f","i","x">>) \in Range(Z)

\* the lists that hold the same set of files as fs, one longer at most
SameFiles(fs) ==
  {p \in UNION {[1..n -> Range(fs)] : n \in Len(fs)..(Len(fs) + 1)} : Range(p) = Range(fs)}

\* C7 (as claimed): fetch_Z_value returns the same set of Z values for every
\* list that holds the same set of files as the list run passed to it.
C7_OrderAndMultiplicityIrrelevant ==
  pc = "names" =>
    \A p \in SameFiles(files) :
      /\ fetch_Z_value(p).error = ""
      /\ fetch_Z_value(p).Z = Range(Z)

\* the path the claim restricts a file to: below the dataset directory, where
\* the 'sub-' or 'derivatives' prefix of the file stands, for inputs and
\* derivatives; the whole path for sourcedata
ClaimedSubPath(x, f) ==
  IF x \in {<<"i","n","p","u","t","s">>, <<"d","e","r","i","v","a","t","i","v","e","s">>} THEN f.rel ELSE PathOf(f)

ClaimedKey(x, f) ==
  LET entities == parse_file_entities(ClaimedSubPath(x, f))
  IN replace_placeholders(ClaimedSubPath(x, f),
                          DictGet(entities, <<"s","u","b","j","e","c","t">>), DictGet(entities, <<"s","e","s","s","i","o","n">>))

\* C8 (as claimed): the keys of every JSON file are the placeholder forms of the
\* group's paths restricted to start at the file's own prefix, holding nothing
\* of the directories above it (the whole path for sourcedata).
C8_KeysStartAtThePrefix ==
  \A n \in DOMAIN json_dir :
    LET c == extract_file_name_components(n)
        fs == GroupFiles(c[2], c[3])
    IN Keys(json_dir[n]) = {ClaimedKey(c[2], fs[i]) : i \in 1..Len(fs)}

\* C9: in every state every YAML file has a JSON file of the same stem, the
\* YAML loop of a group starts only when all JSON files of the group are
\* written, and once run has completed every JSON file has its YAML file.
C9_YamlHasJson ==
  /\ YamlStems \subseteq JsonStems
  /\ (pc = "names" /\ ki > 1) =>
       \A j \in 1..Len(file_names.json) : file_names.json[j] \in DOMAIN json_dir
  /\ pc = "done" => JsonStems \subseteq YamlStems

C9_Witness ==
  /\ pc = "failed"
  /\ YamlStems # {}
  /\ YamlStems # JsonStems

\* C10: every JSON file holds one entry for each distinct key of the files of
\* its group, each entry maps the key to itself, and the JSON files of one group
\* have the same content whatever their Z.
C10_JsonContentPerGroup ==
  /\ \A n \in DOMAIN json_dir :
       LET c == extract_file_name_components(n)
           fs == GroupFiles(c[2], c[3])
           expected == {json_key(c[2], PathOf(fs[i])) : i \in 1..Len(fs)}
       IN /\ Keys(json_dir[n]) = expected
          /\ Len(json_dir[n]) = Cardinality(expected)
          /\ \A i \in 1..Len(json_dir[n]) : json_dir[n][i][2] = json_dir[n][i][1]
  /\ \A n, m \in DOMAIN json_dir :
       LET c == extract_file_name_components(n)
           d == extract_file_name_components(m)
       IN (c[2] = d[2] /\ c[3] = d[3]) => json_dir[n] = json_dir[m]

C10_Witness ==
  \E n, m \in DOMAIN json_dir :
    /\ n # m
    /\ extract_file_name_components(n)[2] = extract_file_name_components(m)[2]
    /\ extract_file_name_components(n)[3] = extract_file_name_components(m)[3]
    /\ Len(json_dir[n]) >= 2
    /\ json_dir[n] = json_dir[m]

====
